---- MODULE Spec2Model ----
(***************************************************************************)
(* Text layout and pagination engine of the ebook composer                 *)
(* (src/project/src/utils/pdfMarkdownParser.ts).                           *)
(*                                                                         *)
(* A text is a sequence of one-character strings.  Lengths are the         *)
(* document units of the drawing surface; the glyph metrics are those of   *)
(* the one family the composer configures (Helvetica, useEbookStore.ts     *)
(* lines 34-95): the space has the same advance in every style, a bold     *)
(* letter is wider than a normal one, the slant does not change advances.  *)
(* Horizontal positions that the code computes with a division are kept    *)
(* as exact fractions <<numerator, denominator>>.                          *)
(***************************************************************************)
EXTENDS Integers, Sequences, FiniteSets, TLC

VARIABLES
  pc,          \* position of the operation under way
  text,        \* the text handed to the operation
  opts,        \* PDFMarkdownOptions and the call's x, y and the page height
  segments,    \* TextSegment[] returned by parseInlineMarkdown
  lines,       \* TextSegment[][] returned by splitTextToLines
  lineIndex,   \* index of the wrapped line handed to the renderer (1-based)
  textLines,   \* parsePDFMarkdown: the lines still to be laid out
  currentY,    \* parsePDFMarkdown / formatPDFTableOfContents: the cursor
  font,        \* the drawing surface's current font style and size
  pages,       \* number of doc.addPage() calls so far
  draws,       \* the doc.text() calls so far, in order
  emitted,     \* one entry per emitted line: the cursor before and after its page-break check
  ret,         \* the value returned by parsePDFMarkdown
  chapters     \* the store's chapters, in order

vars == <<pc, text, opts, segments, lines, lineIndex, textLines, currentY, font, pages,
          draws, emitted, ret, chapters>>

----------------------------------------------------------------------------
(* Sequences *)

RECURSIVE Flatten(_)
Flatten(ss) == IF ss = <<>> THEN <<>> ELSE Head(ss) \o Flatten(Tail(ss))

RECURSIVE SumSeq(_)
SumSeq(s) == IF s = <<>> THEN 0 ELSE Head(s) + SumSeq(Tail(s))

Last(s) == s[Len(s)]

\* All sequences over S of length 0..n
SeqsUpTo(S, n) == UNION {[1..k -> S] : k \in 0..n}

----------------------------------------------------------------------------
(* TextStyle and the drawing surface's font *)

\* the style parseInlineMarkdown starts from; heading 0 stands for null
PlainStyle == [bold |-> FALSE, italic |-> FALSE, heading |-> 0]

FontStyleOf(style) ==
  IF style.bold /\ style.italic THEN "bolditalic"
  ELSE IF style.bold THEN "bold"
  ELSE IF style.italic THEN "italic"
  ELSE "normal"

\* headingSizes of applyStyle, as hundredths of the base size
HeadingPercent(h) ==
  CASE h = 1 -> 200 [] h = 2 -> 150 [] h = 3 -> 117
    [] h = 4 -> 100 [] h = 5 -> 83 [] h = 6 -> 67

\* an applyStyle that sets the size and leaves the weight and slant normal
applyStyleSizeOnly(style, baseFontSize) ==
  [style |-> "normal",
   size  |-> IF style.heading # 0
             THEN (baseFontSize * HeadingPercent(style.heading)) \div 100
             ELSE baseFontSize]

\* applyStyle(doc, style, baseFontSize, font): the surface font afterwards
applyStyle(style, baseFontSize) ==
  [style |-> FontStyleOf(style),
   size  |-> IF style.heading # 0
             THEN (baseFontSize * HeadingPercent(style.heading)) \div 100
             ELSE baseFontSize]

\* advance of one character in quarters of the font size
Em(c, fontStyle) ==
  IF c \in {" ", "-", "."} THEN 1
  ELSE IF fontStyle \in {"bold", "bolditalic"} THEN 3
  ELSE 2

\* doc.getTextWidth(str) under the surface font f
getTextWidth(str, f) ==
  SumSeq([k \in 1..Len(str) |-> (Em(str[k], f.style) * f.size) \div 4])

----------------------------------------------------------------------------
(* parseInlineMarkdown *)

RECURSIVE ParseInlineScan(_, _, _, _, _)
\* the while loop of parseInlineMarkdown from index i (1-based)
ParseInlineScan(str, i, currentText, currentStyle, segs) ==
  IF i > Len(str)
  THEN [segments |-> segs, currentText |-> currentText, currentStyle |-> currentStyle]
  ELSE IF str[i] = "*" \/ str[i] = "_"
       THEN LET isDouble == i + 1 <= Len(str) /\ str[i + 1] = str[i]
                flushed  == IF currentText # <<>>
                            THEN Append(segs, [text |-> currentText, style |-> currentStyle])
                            ELSE segs
            IN IF isDouble
               THEN ParseInlineScan(str, i + 2, <<>>,
                      [currentStyle EXCEPT !.bold = ~@], flushed)
               ELSE ParseInlineScan(str, i + 1, <<>>,
                      [currentStyle EXCEPT !.italic = ~@], flushed)
       ELSE ParseInlineScan(str, i + 1, Append(currentText, str[i]), currentStyle, segs)

RECURSIVE ParseInlineScanMixedPair(_, _, _, _, _)
\* the while loop with a doubled marker recognised in any two marker characters
ParseInlineScanMixedPair(str, i, currentText, currentStyle, segs) ==
  IF i > Len(str)
  THEN IF currentText # <<>>
       THEN Append(segs, [text |-> currentText, style |-> currentStyle])
       ELSE segs
  ELSE IF str[i] = "*" \/ str[i] = "_"
       THEN LET isDouble == i + 1 <= Len(str) /\ str[i + 1] \in {"*", "_"}
                flushed  == IF currentText # <<>>
                            THEN Append(segs, [text |-> currentText, style |-> currentStyle])
                            ELSE segs
            IN IF isDouble
               THEN ParseInlineScanMixedPair(str, i + 2, <<>>,
                      [currentStyle EXCEPT !.bold = ~@], flushed)
               ELSE ParseInlineScanMixedPair(str, i + 1, <<>>,
                      [currentStyle EXCEPT !.italic = ~@], flushed)
       ELSE ParseInlineScanMixedPair(str, i + 1, Append(currentText, str[i]),
                                     currentStyle, segs)

\* a parseInlineMarkdown that takes "*_" and "_*" for doubled markers
parseInlineMarkdownMixedPair(str) ==
  ParseInlineScanMixedPair(str, 1, <<>>, PlainStyle, <<>>)

\* a parseInlineMarkdown that forgets the text accumulated after the last marker
parseInlineMarkdownNoTail(str) ==
  ParseInlineScan(str, 1, <<>>, PlainStyle, <<>>).segments

parseInlineMarkdown(str) ==
  LET scan == ParseInlineScan(str, 1, <<>>, PlainStyle, <<>>)
  IN IF scan.currentText # <<>>
     THEN Append(scan.segments, [text |-> scan.currentText, style |-> scan.currentStyle])
     ELSE scan.segments

----------------------------------------------------------------------------
(* splitWordIfNeeded *)

RECURSIVE SplitWordScan(_, _, _, _, _, _, _)
\* the for loop of splitWordIfNeeded from index i (1-based), under font f
SplitWordScan(word, i, currentPart, result, style, f, maxWidth) ==
  IF i > Len(word)
  THEN IF Len(currentPart) > 0
       THEN Append(result, [text |-> currentPart, style |-> style])
       ELSE result
  ELSE LET char      == word[i]
           testPart  == Append(currentPart, char)
           testWidth == getTextWidth(testPart, f)
       IN IF testWidth * 100 > maxWidth * 95
          THEN IF Len(currentPart) >= 2
               THEN SplitWordScan(word, i + 1, <<char>>,
                      Append(result, [text |-> Append(currentPart, "-"), style |-> style]),
                      style, f, maxWidth)
               ELSE IF Len(currentPart) > 0
               THEN SplitWordScan(word, i + 1, <<char>>,
                      Append(result, [text |-> currentPart, style |-> style]),
                      style, f, maxWidth)
               ELSE SplitWordScan(word, i + 1, <<>>,
                      Append(result, [text |-> <<char>>, style |-> style]),
                      style, f, maxWidth)
          ELSE SplitWordScan(word, i + 1, testPart, result, style, f, maxWidth)

\* a splitWordIfNeeded that cuts without asking first whether the word fits
splitWordIfNeededAlwaysCut(word, style, size, maxWidth) ==
  SplitWordScan(word, 1, <<>>, <<>>, style, applyStyle(style, size), maxWidth)

\* splitWordIfNeeded(word, style, doc, maxWidth) with the surface at size
splitWordIfNeeded(word, style, size, maxWidth) ==
  LET f == applyStyle(style, size)
  IN IF getTextWidth(word, f) <= maxWidth
     THEN << [text |-> word, style |-> style] >>
     ELSE SplitWordScan(word, 1, <<>>, <<>>, style, f, maxWidth)

----------------------------------------------------------------------------
(* splitTextToLines *)

RECURSIVE SplitWhitespace(_, _)
\* segment.text.split(/\s+/) without its empty strings; cur is the word under way
SplitWhitespace(str, cur) ==
  IF str = <<>> THEN (IF cur = <<>> THEN <<>> ELSE <<cur>>)
  ELSE IF Head(str) = " "
       THEN (IF cur = <<>> THEN <<>> ELSE <<cur>>) \o SplitWhitespace(Tail(str), <<>>)
       ELSE SplitWhitespace(Tail(str), Append(cur, Head(str)))

\* the words of all segments in order, each with its segment's style
WordsOf(segs) ==
  Flatten([k \in 1..Len(segs) |->
     LET ws == SplitWhitespace(segs[k].text, <<>>)
     IN [j \in 1..Len(ws) |-> [text |-> ws[j], style |-> segs[k].style]]])

\* width of a segment under its own style, at the surface's size
SegmentWidth(seg, size) == getTextWidth(seg.text, applyStyle(seg.style, size))

LineWidth(line, size) == SumSeq([k \in 1..Len(line) |-> SegmentWidth(line[k], size)])

\* availableWidth of splitTextToLines; baseIndentation is counted in quarters
AvailableWidth(maxWidth, baseIndentation, size) ==
  maxWidth - (baseIndentation * size) \div 4


\* baseIndentation * fontSize, baseIndentation being counted in quarters
IndentationWidth(baseIndentation, size) == (baseIndentation * size) \div 4

\* a commitLine that throws the line under way away
commitLineDiscard(st) == [lines |-> st.lines, cur |-> <<>>, width |-> 0]

\* commitLine()
commitLine(st) ==
  IF Len(st.cur) > 0
  THEN [lines |-> Append(st.lines, st.cur), cur |-> <<>>, width |-> 0]
  ELSE st

\* the body of words.forEach for one word
PlaceWord(st, w, size, availableWidth, spaceWidth) ==
  LET wordWidth  == SegmentWidth(w, size)
      totalWidth == st.width + (IF Len(st.cur) > 0 THEN spaceWidth ELSE 0) + wordWidth
  IN IF totalWidth <= availableWidth
     THEN [lines |-> st.lines,
           cur   |-> (IF Len(st.cur) > 0
                      THEN Append(st.cur, [text |-> <<" ">>, style |-> w.style])
                      ELSE st.cur) \o <<w>>,
           width |-> st.width + (IF Len(st.cur) > 0 THEN spaceWidth ELSE 0) + wordWidth]
     ELSE IF wordWidth <= availableWidth
     THEN [commitLine(st) EXCEPT !.cur = <<w>>, !.width = wordWidth]
     ELSE LET parts == splitWordIfNeeded(w.text, w.style, size, availableWidth)
              n     == Len(parts)
              c     == commitLine(st)
          IN [lines |-> c.lines \o [k \in 1..(n - 1) |-> <<parts[k]>>],
              cur   |-> <<parts[n]>>,
              width |-> SegmentWidth(parts[n], size)]

RECURSIVE PlaceWords(_, _, _, _, _)
PlaceWords(st, ws, size, availableWidth, spaceWidth) ==
  IF ws = <<>> THEN st
  ELSE PlaceWords(PlaceWord(st, Head(ws), size, availableWidth, spaceWidth),
                  Tail(ws), size, availableWidth, spaceWidth)

\* the lines built by the two forEach loops and the last commitLine
BuildLines(segs, size, availableWidth, spaceWidth) ==
  commitLine(PlaceWords([lines |-> <<>>, cur |-> <<>>, width |-> 0],
                        WordsOf(segs), size, availableWidth, spaceWidth)).lines

RECURSIVE KeepParts(_, _, _, _)
\* parts.forEach of the width repair: a part is kept while the line stays in budget
KeepParts(acc, parts, size, availableWidth) ==
  IF parts = <<>> THEN acc
  ELSE LET w == SegmentWidth(Head(parts), size)
       IN IF acc.currentWidth + w <= availableWidth
          THEN KeepParts([newLine |-> Append(acc.newLine, Head(parts)),
                          currentWidth |-> acc.currentWidth + w],
                         Tail(parts), size, availableWidth)
          ELSE KeepParts(acc, Tail(parts), size, availableWidth)

RECURSIVE RepairScan(_, _, _, _, _)
\* line.forEach of the width repair
RepairScan(acc, line, size, availableWidth, spaceWidth) ==
  IF line = <<>> THEN acc.newLine
  ELSE LET seg == Head(line)
       IN IF seg.text = <<" ">>
          THEN RepairScan(
                 IF acc.currentWidth + spaceWidth <= availableWidth
                 THEN [newLine |-> Append(acc.newLine, seg),
                       currentWidth |-> acc.currentWidth + spaceWidth]
                 ELSE acc,
                 Tail(line), size, availableWidth, spaceWidth)
          ELSE RepairScan(
                 KeepParts(acc,
                   splitWordIfNeeded(seg.text, seg.style, size,
                                     availableWidth - acc.currentWidth),
                   size, availableWidth),
                 Tail(line), size, availableWidth, spaceWidth)

\* the map callback of the return statement: the width repair of one line
RepairLine(line, size, availableWidth, spaceWidth) ==
  IF LineWidth(line, size) > availableWidth
  THEN RepairScan([newLine |-> <<>>, currentWidth |-> 0], line, size,
                  availableWidth, spaceWidth)
  ELSE line

\* a splitTextToLines that returns the lines as built, without the width repair
splitTextToLinesNoRepair(segs, maxWidth, baseIndentation, f) ==
  BuildLines(segs, f.size, AvailableWidth(maxWidth, baseIndentation, f.size),
             getTextWidth(<<" ">>, f))

\* splitTextToLines(doc, segments, maxWidth, baseIndentation, font), the
\* surface being under font f when it is called
splitTextToLines(segs, maxWidth, baseIndentation, f) ==
  LET availableWidth == AvailableWidth(maxWidth, baseIndentation, f.size)
      spaceWidth     == getTextWidth(<<" ">>, f)
      built          == BuildLines(segs, f.size, availableWidth, spaceWidth)
  IN [k \in 1..Len(built) |-> RepairLine(built[k], f.size, availableWidth, spaceWidth)]

\* the surface font style splitTextToLines leaves: that of the last word measured
StyleAfterSplit(segs, f) ==
  LET ws == WordsOf(segs)
  IN IF ws = <<>> THEN f ELSE applyStyle(Last(ws).style, f.size)

----------------------------------------------------------------------------
(* Line rendering.  A draw is [text, x, font]: the string, the fraction     *)
(* <<numerator, denominator>> it is drawn at, the surface font at the call *)

RECURSIVE JustifiedLastScan(_, _, _)
\* the forEach of the isLastLine || segments.length <= 1 branch
JustifiedLastScan(segs, currentX, size) ==
  IF segs = <<>> THEN <<>>
  ELSE LET seg == Head(segs)
           f   == applyStyle(seg.style, size)
       IN <<[text |-> seg.text, x |-> <<currentX, 1>>, font |-> f]>>
          \o JustifiedLastScan(Tail(segs),
               currentX + getTextWidth(
                  seg.text \o (IF seg.text = <<" ">> THEN <<>> ELSE <<" ">>), f),
               size)

RECURSIVE JustifiedScan(_, _, _, _, _, _)
\* the last forEach of renderJustifiedLine from index i; positions are in
\* den-ths, extraNum is extraSpacePerGap in den-ths
JustifiedScan(segs, i, currentX, den, extraNum, size) ==
  IF i > Len(segs) THEN <<>>
  ELSE LET seg == segs[i]
           f   == applyStyle(seg.style, size)
           adv == getTextWidth(seg.text, f) * den
                  + (IF seg.text = <<" ">> /\ i < Len(segs) THEN extraNum ELSE 0)
       IN <<[text |-> seg.text, x |-> <<currentX, den>>, font |-> f]>>
          \o JustifiedScan(segs, i + 1, currentX + adv, den, extraNum, size)

NumberOfSpaces(segs) == Cardinality({k \in 1..Len(segs) : segs[k].text = <<" ">>})

\* a renderJustifiedLine that stretches the last line of the paragraph too
renderJustifiedLineStretchLast(segs, x, maxWidth, isLastLine, f) ==
  LET numberOfSpaces == NumberOfSpaces(segs)
      remainingSpace == IF maxWidth - LineWidth(segs, f.size) > 0
                        THEN maxWidth - LineWidth(segs, f.size) ELSE 0
      den == IF numberOfSpaces > 0 THEN numberOfSpaces ELSE 1
  IN JustifiedScan(segs, 1, x * den, den,
                   IF numberOfSpaces > 0 THEN remainingSpace ELSE 0, f.size)

\* a renderJustifiedLine that leaves one gap unstretched
renderJustifiedLineShortGap(segs, x, maxWidth, isLastLine, f) ==
  IF isLastLine \/ Len(segs) <= 1
  THEN JustifiedLastScan(segs, x, f.size)
  ELSE LET numberOfSpaces == NumberOfSpaces(segs) + 1
           remainingSpace == IF maxWidth - LineWidth(segs, f.size) > 0
                             THEN maxWidth - LineWidth(segs, f.size) ELSE 0
       IN JustifiedScan(segs, 1, x * numberOfSpaces, numberOfSpaces,
                        remainingSpace, f.size)

\* renderJustifiedLine(doc, segments, x, y, maxWidth, isLastLine), the
\* surface being under font f when it is called
renderJustifiedLine(segs, x, maxWidth, isLastLine, f) ==
  IF isLastLine \/ Len(segs) <= 1
  THEN JustifiedLastScan(segs, x, f.size)
  ELSE LET numberOfSpaces == NumberOfSpaces(segs)
           totalTextWidth == LineWidth(segs, f.size)
           remainingSpace == IF maxWidth - totalTextWidth > 0
                             THEN maxWidth - totalTextWidth ELSE 0
           den == IF numberOfSpaces > 0 THEN numberOfSpaces ELSE 1
       IN JustifiedScan(segs, 1, x * den, den,
                        IF numberOfSpaces > 0 THEN remainingSpace ELSE 0, f.size)

RECURSIVE AlignedScan(_, _, _, _)
\* the drawing forEach of the left / center / right branch; positions in den-ths
AlignedScan(segs, xOffset, den, fontSize) ==
  IF segs = <<>> THEN <<>>
  ELSE LET seg == Head(segs)
           f   == applyStyle(seg.style, fontSize)
       IN <<[text |-> seg.text, x |-> <<xOffset, den>>, font |-> f]>>
          \o AlignedScan(Tail(segs), xOffset + getTextWidth(seg.text, f) * den,
                         den, fontSize)

\* the else branch of options.align === 'justify': left is the xOffset the line
\* starts from, inset the part of maxWidth the centring leaves out
renderAlignedLine(segs, x, left, inset, maxWidth, align, fontSize) ==
  LET totalWidth == LineWidth(segs, fontSize)
  IN IF align = "center"
     THEN AlignedScan(segs, 2 * (x + inset) + (maxWidth - inset - totalWidth), 2, fontSize)
     ELSE IF align = "right"
     THEN AlignedScan(segs, x + maxWidth - totalWidth, 1, fontSize)
     ELSE AlignedScan(segs, left, 1, fontSize)

\* the draws of one wrapped line of a source line, by options.align
renderLine(segs, x, left, inset, width, isLastLine, o, f) ==
  IF o.align = "justify"
  THEN renderJustifiedLine(segs, left, width, isLastLine, f)
  ELSE renderAlignedLine(segs, x, left, inset, o.maxWidth, o.align, o.fontSize)

----------------------------------------------------------------------------
(* Strings: the pieces of the regular expressions and string methods used   *)

NL == "\n"
IsSpace(c) == c = " "
IsDigit(c) == c \in {"0", "1", "2", "3", "4", "5", "6", "7", "8", "9"}

\* number of leading characters of str that satisfy the test
RECURSIVE LeadingSpaces(_)
LeadingSpaces(str) ==
  IF str # <<>> /\ IsSpace(Head(str)) THEN 1 + LeadingSpaces(Tail(str)) ELSE 0

RECURSIVE LeadingDigits(_)
LeadingDigits(str) ==
  IF str # <<>> /\ IsDigit(Head(str)) THEN 1 + LeadingDigits(Tail(str)) ELSE 0

Drop(str, n) == SubSeq(str, n + 1, Len(str))
Take(str, n) == SubSeq(str, 1, n)
Reverse(str) == [k \in 1..Len(str) |-> str[Len(str) + 1 - k]]

TrimStart(str) == Drop(str, LeadingSpaces(str))
TrimEnd(str) == Take(str, Len(str) - LeadingSpaces(Reverse(str)))
\* String.prototype.trim
Trim(str) == TrimEnd(TrimStart(str))

StartsWith(str, pre) == Len(str) >= Len(pre) /\ Take(str, Len(pre)) = pre
EndsWith(str, suf) == Len(str) >= Len(suf) /\ Drop(str, Len(str) - Len(suf)) = suf

\* String.prototype.includes
Includes(str, sub) == \E k \in 0..(Len(str) - Len(sub)) : StartsWith(Drop(str, k), sub)

RECURSIVE ReplaceRules(_)
\* text.replace(/---/g, '\n')
ReplaceRules(str) ==
  IF str = <<>> THEN <<>>
  ELSE IF StartsWith(str, <<"-", "-", "-">>) THEN <<NL>> \o ReplaceRules(Drop(str, 3))
  ELSE <<Head(str)>> \o ReplaceRules(Tail(str))

RECURSIVE CollapseNewlines(_)
\* text.replace(/\n{2,}/g, '\n')
CollapseNewlines(str) ==
  IF str = <<>> THEN <<>>
  ELSE IF Head(str) = NL /\ Len(str) >= 2 /\ str[2] = NL THEN CollapseNewlines(Tail(str))
  ELSE <<Head(str)>> \o CollapseNewlines(Tail(str))

\* the text after the two replacements at the head of parsePDFMarkdown
Normalize(str) == CollapseNewlines(ReplaceRules(str))

RECURSIVE SplitNewlines(_, _)
\* text.split('\n'); cur is the line under way
SplitNewlines(str, cur) ==
  IF str = <<>> THEN <<cur>>
  ELSE IF Head(str) = NL THEN <<cur>> \o SplitNewlines(Tail(str), <<>>)
  ELSE SplitNewlines(Tail(str), Append(cur, Head(str)))

----------------------------------------------------------------------------
(* calculateIndentation and the classification of a source line *)

\* text.match(/^(\s*(?:[-*]|\d+\.)\s+)/)
ListMarkerMatch(str) ==
  LET t == TrimStart(str)
      d == LeadingDigits(t)
  IN \/ /\ Len(t) >= 2
        /\ t[1] \in {"-", "*"}
        /\ IsSpace(t[2])
     \/ /\ d >= 1
        /\ Len(t) >= d + 2
        /\ t[d + 1] = "."
        /\ IsSpace(t[d + 2])

\* a calculateIndentation without the bonus of a list marker
calculateIndentationNoList(str) ==
  LET baseIndent == LeadingSpaces(str) \div 2
  IN baseIndent + (IF baseIndent > 0 THEN 3
                   ELSE IF Len(Trim(str)) > 0 THEN 1
                   ELSE 0)

\* a calculateIndentation that takes one leading space for an indentation
calculateIndentationAnySpace(str) ==
  LET baseIndent == LeadingSpaces(str) \div 2
  IN baseIndent + (IF ListMarkerMatch(str) THEN 1
                   ELSE IF LeadingSpaces(str) > 0 THEN 3
                   ELSE IF Len(Trim(str)) > 0 THEN 1
                   ELSE 0)

\* calculateIndentation(text), counted in quarters (0.25 is 1)
calculateIndentation(str) ==
  LET baseIndent == LeadingSpaces(str) \div 2
  IN baseIndent + (IF ListMarkerMatch(str) THEN 1
                   ELSE IF baseIndent > 0 THEN 3
                   ELSE IF Len(Trim(str)) > 0 THEN 1
                   ELSE 0)

RECURSIVE LeadingHashes(_)
LeadingHashes(str) ==
  IF str # <<>> /\ Head(str) = "#" THEN 1 + LeadingHashes(Tail(str)) ELSE 0

\* line.match(/^(#{1,6})\s+(.+)$/) on a trimmed line
HeaderMatch(line) ==
  LET h == LeadingHashes(line)
  IN h \in 1..6 /\ Len(line) > h + 1 /\ IsSpace(line[h + 1])

HeaderLevel(line) == LeadingHashes(line)
HeaderContent(line) == TrimStart(Drop(line, LeadingHashes(line)))

\* line.match(/^(\d+)\.\s+(.+)$/) on a trimmed line
OrderedListMatch(line) ==
  LET d == LeadingDigits(line)
  IN d >= 1 /\ Len(line) > d + 2 /\ line[d + 1] = "." /\ IsSpace(line[d + 2])

OrderedNumber(line) == Take(line, LeadingDigits(line))
OrderedContent(line) == TrimStart(Drop(line, LeadingDigits(line) + 1))

\* line.match(/^[-*]\s+(.+)$/) on a trimmed line
UnorderedListMatch(line) ==
  Len(line) > 2 /\ line[1] \in {"-", "*"} /\ IsSpace(line[2])

UnorderedContent(line) == TrimStart(Tail(line))

----------------------------------------------------------------------------
(* parsePDFMarkdown: the page flow.  Vertical lengths are kept in halves of *)
(* the surface unit (Y(7) is 7 units), the half line height that follows a  *)
(* chapter entry of the table of contents being then exact.                 *)
(* A flow state is [currentY, pages, font, draws, emitted, mark]: the       *)
(* cursor, the pages added, the surface font, the doc.text calls, one entry *)
(* per marker, wrapped line or blank line, and the cursor and page count as     *)
(* they were when the previous emission ended.                              *)

Y(v) == 2 * v

MarginTop == 20
MarginBottom == 20

\* maxY of parsePDFMarkdown
MaxY(o) == o.pageHeight - Y(MarginBottom)

\* what addNewPage returns
NewPageY(o) == Y(MarginTop + o.fontSize)

\* a page check that lets a line start anywhere above maxY
PageCheckLate(st, o) ==
  IF st.currentY > MaxY(o)
  THEN [st EXCEPT !.currentY = NewPageY(o), !.pages = @ + 1]
  ELSE st

\* if (currentY + lineHeight > maxY) currentY = addNewPage()
PageCheck(st, o) ==
  IF st.currentY + o.lineHeight > MaxY(o)
  THEN [st EXCEPT !.currentY = NewPageY(o), !.pages = @ + 1]
  ELSE st

\* the doc.text calls of one emission, placed at the cursor of st
Placed(ds, st, src, kind, k) ==
  [j \in 1..Len(ds) |->
     [text |-> ds[j].text, x |-> ds[j].x, font |-> ds[j].font,
      y |-> st.currentY, page |-> st.pages, src |-> src, kind |-> kind, line |-> k]]

Emission(st, src, kind, k) ==
  [src |-> src, kind |-> kind, line |-> k,
   yIn |-> st.mark.y, pagesIn |-> st.mark.pages,
   y |-> st.currentY, page |-> st.pages]

Marked(st) == [st EXCEPT !.mark = [y |-> st.currentY, pages |-> st.pages]]

RECURSIVE EmitLines(_, _, _, _, _, _, _, _, _)
\* lines.forEach((lineSegments, lineIndex) => ...) from index k (1-based):
\* left is the x a left-aligned or justified line starts at, inset what the
\* centring leaves out of maxWidth, width what renderJustifiedLine is given
EmitLines(st, ls, k, src, x, left, inset, width, o) ==
  IF k > Len(ls) THEN st
  ELSE LET checked == PageCheck(st, o)
           ds      == renderLine(ls[k], x, left, inset, width, k = Len(ls), o, checked.font)
           drawn   == [checked EXCEPT
                         !.draws = @ \o Placed(ds, checked, src, "run", k),
                         !.emitted = Append(@, Emission(checked, src, "line", k)),
                         !.font = IF ds = <<>> THEN @ ELSE Last(ds).font,
                         !.currentY = @ + o.lineHeight]
       IN EmitLines(Marked(drawn), ls, k + 1, src, x, left, inset, width, o)

\* a blank line that does not move the cursor
LayoutBlankStill(st, src, o) ==
  [st EXCEPT !.emitted = Append(@, Emission(st, src, "blank", 0))]

\* the blank line branch
LayoutBlank(st, src, o) ==
  LET moved == [st EXCEPT !.currentY = @ + o.lineHeight]
      after == IF moved.currentY > MaxY(o)
               THEN [moved EXCEPT !.currentY = NewPageY(o), !.pages = @ + 1]
               ELSE moved
  IN [after EXCEPT !.emitted = Append(@, Emission(after, src, "blank", 0))]

\* options.fontSize * (2.5 - level * 0.3)
HeadingFontSize(o, level) == (o.fontSize * (25 - 3 * level)) \div 10

\* the headerMatch branch
LayoutHeader(st, line, baseIndentation, src, o) ==
  LET checked == PageCheck(st, o)
      hfont   == [style |-> "bold", size |-> HeadingFontSize(o, HeaderLevel(line))]
      segs    == parseInlineMarkdown(HeaderContent(line))
      ls      == splitTextToLines(segs, o.maxWidth, baseIndentation, hfont)
      ready   == [checked EXCEPT !.font = StyleAfterSplit(segs, hfont)]
      indent  == IndentationWidth(baseIndentation, o.fontSize)
      done    == EmitLines(ready, ls, 1, src, o.x, o.x + indent, 0,
                           o.maxWidth - indent, o)
  IN [done EXCEPT !.font = [style |-> "normal", size |-> o.fontSize]]

\* what the two list branches share: marker is the string drawn first
LayoutListItem(st, marker, content, baseIndentation, src, o) ==
  LET checked    == PageCheck(st, o)
      listIndent == IndentationWidth(baseIndentation, o.fontSize)
      mark       == <<[text |-> marker, x |-> <<o.x + listIndent, 1>>, font |-> checked.font]>>
      marked     == Marked([checked EXCEPT
                       !.draws = @ \o Placed(mark, checked, src, "marker", 0),
                       !.emitted = Append(@, Emission(checked, src, "marker", 0))])
      segs       == parseInlineMarkdown(content)
      ls         == splitTextToLines(segs, o.maxWidth - (listIndent + 5),
                                     baseIndentation, marked.font)
      ready      == [marked EXCEPT !.font = StyleAfterSplit(segs, marked.font)]
  IN EmitLines(ready, ls, 1, src, o.x, o.x + listIndent + 5, listIndent + 5,
               o.maxWidth - (listIndent + 5), o)

Bullet == "o"

\* the orderedListMatch branch
LayoutOrdered(st, line, baseIndentation, src, o) ==
  LayoutListItem(st, Append(OrderedNumber(line), "."), OrderedContent(line),
                 baseIndentation, src, o)

\* the unorderedListMatch branch
LayoutUnordered(st, line, baseIndentation, src, o) ==
  LayoutListItem(st, <<Bullet>>, UnorderedContent(line), baseIndentation, src, o)

\* the plain paragraph branch
LayoutParagraph(st, line, baseIndentation, src, o) ==
  LET checked == PageCheck(st, o)
      segs    == parseInlineMarkdown(line)
      ls      == splitTextToLines(segs, o.maxWidth, baseIndentation, checked.font)
      ready   == [checked EXCEPT !.font = StyleAfterSplit(segs, checked.font)]
      indent  == IndentationWidth(baseIndentation, o.fontSize)
  IN EmitLines(ready, ls, 1, src, o.x, o.x + indent, 0, o.maxWidth - indent, o)

\* one iteration of the for loop over textLines
LayoutLine(st, rawLine, src, o) ==
  LET baseIndentation == calculateIndentation(rawLine)
      line            == Trim(rawLine)
      entry           == Marked(st)
  IN IF line = <<>> THEN LayoutBlank(entry, src, o)
     ELSE IF HeaderMatch(line) THEN LayoutHeader(entry, line, baseIndentation, src, o)
     ELSE IF OrderedListMatch(line) THEN LayoutOrdered(entry, line, baseIndentation, src, o)
     ELSE IF UnorderedListMatch(line) THEN LayoutUnordered(entry, line, baseIndentation, src, o)
     ELSE LayoutParagraph(entry, line, baseIndentation, src, o)

----------------------------------------------------------------------------
(* formatPDFTableOfContents *)

\* "- Halaman", "Bab" and "Kata Pengantar"
PageLabel == <<"-", " ", "H", "a", "l", "a", "m", "a", "n">>
ChapterWord == <<"B", "a", "b">>
FrontMatterWords == <<"K", "a", "t", "a", " ", "P", "e", "n", "g", "a", "n", "t", "a", "r">>

\* String.prototype.toLowerCase on the capitals the inputs use
LowerChar(c) ==
  CASE c = "B" -> "b" [] c = "K" -> "k" [] c = "P" -> "p" [] c = "H" -> "h"
    [] c = "T" -> "t" [] c = "I" -> "i" [] c = "V" -> "v" [] c = "X" -> "x"
    [] c = "L" -> "l" [] c = "C" -> "c" [] c = "D" -> "d" [] c = "M" -> "m"
    [] OTHER -> c

Lower(str) == [k \in 1..Len(str) |-> LowerChar(str[k])]

\* (\d+|[ivxlcdm]+)$ under the i flag, on the whole of str
IsPageNumber(str) ==
  /\ str # <<>>
  /\ \/ \A k \in 1..Len(str) : IsDigit(str[k])
     \/ \A k \in 1..Len(str) : LowerChar(str[k]) \in {"i", "v", "x", "l", "c", "d", "m"}

\* the page number the pattern captures when it matches from offset k, <<>> if
\* it does not match there
PageNumberAt(str, k) ==
  LET suf  == Drop(str, k)
      rest == TrimStart(Drop(suf, Len(PageLabel)))
  IN IF StartsWith(Lower(suf), Lower(PageLabel)) /\ IsPageNumber(rest) THEN rest
     ELSE IF IsPageNumber(suf) THEN suf
     ELSE <<>>

\* trimmedLine.match(/(?:- Halaman\s*)?(\d+|[ivxlcdm]+)$/i): the leftmost
\* offset the pattern matches from, -1 if there is none
PageMatchIndex(str) ==
  LET hits == {k \in 0..(Len(str) - 1) : PageNumberAt(str, k) # <<>>}
  IN IF hits = {} THEN -1 ELSE CHOOSE k \in hits : \A j \in hits : k <= j

\* content.replace(/- Halaman\s*$/, '').trim() on a trimmed content
StripPageLabel(content) ==
  IF EndsWith(content, PageLabel)
  THEN Trim(Take(content, Len(content) - Len(PageLabel)))
  ELSE content

\* pageNumber and content of a trimmed line
TocPageNumber(trimmed) ==
  IF PageMatchIndex(trimmed) >= 0 THEN PageNumberAt(trimmed, PageMatchIndex(trimmed))
  ELSE <<>>

TocContent(trimmed) ==
  StripPageLabel(IF PageMatchIndex(trimmed) >= 0
                 THEN Trim(Take(trimmed, PageMatchIndex(trimmed)))
                 ELSE trimmed)

\* content.toLowerCase().startsWith('kata pengantar')
IsFrontMatterEntry(content) == StartsWith(Lower(content), Lower(FrontMatterWords))

\* content.match(/^Bab\s+\d+/i)
IsChapterEntry(content) ==
  /\ StartsWith(Lower(content), Lower(ChapterWord))
  /\ LeadingSpaces(Drop(content, 3)) >= 1
  /\ LeadingDigits(TrimStart(Drop(content, 3))) >= 1

\* content.match(/^\d+\.\d+/)
IsSubChapterEntry(content) ==
  LET d == LeadingDigits(content)
  IN d >= 1 /\ Len(content) >= d + 2 /\ content[d + 1] = "." /\ IsDigit(content[d + 2])

RECURSIVE LeadingWord(_)
LeadingWord(str) ==
  IF str # <<>> /\ ~IsSpace(Head(str)) THEN 1 + LeadingWord(Tail(str)) ELSE 0

\* const [first, ...titleParts] = content.split(/\s+(.+)/): first, and
\* titleParts.join(' ').trim()
SplitFirst(content) == Take(content, LeadingWord(content))
SplitRest(content) == Trim(Drop(content, LeadingWord(content)))

TocMarginRight == 20
PageNumberWidth == 10
DotSpacing == 2
SubChapterIndent == 10
TitleOffset == 15
DotsGap == 5

\* [weight, indent, prefix, title] of an entry
TocShape(content) ==
  IF IsFrontMatterEntry(content)
  THEN [weight |-> "bold", indent |-> 0, prefix |-> <<>>, title |-> content]
  ELSE IF IsChapterEntry(content)
  THEN [weight |-> "bold", indent |-> 0,
        prefix |-> SplitFirst(content), title |-> SplitRest(content)]
  ELSE IF IsSubChapterEntry(content)
  THEN [weight |-> "normal", indent |-> SubChapterIndent,
        prefix |-> SplitFirst(content), title |-> SplitRest(content)]
  ELSE [weight |-> "normal", indent |-> 0, prefix |-> <<>>, title |-> content]

\* numberOfDots, dotsStart and the dot pitch of an entry drawn under font f
TocDots(shape, o, f) ==
  LET startX     == o.x + shape.indent
      titleWidth == IF shape.prefix # <<>>
                    THEN getTextWidth(shape.prefix \o <<" ", " ">> \o shape.title, f)
                    ELSE getTextWidth(shape.title, f)
      dotsStart  == startX + titleWidth + DotsGap
      dotsEnd    == o.pageWidth - TocMarginRight - PageNumberWidth
      dotWidth   == getTextWidth(<<".">>, f)
  IN [start |-> dotsStart, pitch |-> dotWidth + DotSpacing,
      count |-> (dotsEnd - dotsStart) \div (dotWidth + DotSpacing)]

\* one iteration of the for loop of formatPDFTableOfContents
TocLine(st, rawLine, src, o) ==
  LET trimmedLine == Trim(rawLine)
      entry       == Marked(st)
  IN IF trimmedLine = <<>>
     THEN [entry EXCEPT !.currentY = @ + o.lineHeight,
                        !.emitted = Append(@, Emission(entry, src, "blank", 0))]
     ELSE LET pageNumber == TocPageNumber(trimmedLine)
              content    == TocContent(trimmedLine)
              shape      == TocShape(content)
              f          == [style |-> shape.weight, size |-> st.font.size]
              normal     == [style |-> "normal", size |-> st.font.size]
              startX     == o.x + shape.indent
              dots       == TocDots(shape, o, f)
              heads      == IF shape.prefix # <<>>
                            THEN << [text |-> shape.prefix, x |-> <<startX, 1>>, font |-> f],
                                    [text |-> shape.title, x |-> <<startX + TitleOffset, 1>>,
                                     font |-> f] >>
                            ELSE << [text |-> shape.title, x |-> <<startX, 1>>, font |-> f] >>
              leader     == [i \in 1..(IF dots.count > 0 THEN dots.count ELSE 0) |->
                               [text |-> <<".">>,
                                x |-> <<dots.start + (i - 1) * dots.pitch, 1>>,
                                font |-> normal]]
              number     == << [text |-> pageNumber,
                                x |-> <<o.pageWidth - TocMarginRight - PageNumberWidth, 1>>,
                                font |-> normal] >>
          IN [entry EXCEPT
                !.draws = @ \o Placed(heads, entry, src, "title", 1)
                            \o Placed(leader, entry, src, "dot", 1)
                            \o Placed(number, entry, src, "pageNumber", 1),
                !.emitted = Append(@, Emission(entry, src, "entry", 1)),
                !.font = normal,
                !.currentY = @ + o.lineHeight
                             + (IF IsChapterEntry(content) THEN o.lineHeight \div 2 ELSE 0)]

\* the horizontal extent of a draw of the table of contents: the page number
\* is drawn with { align: 'right' }, its x being its right edge
DrawLeft(d) ==
  IF d.kind = "pageNumber" THEN d.x[1] - getTextWidth(d.text, d.font) ELSE d.x[1]
DrawRight(d) == DrawLeft(d) + getTextWidth(d.text, d.font)

\* a routing test that takes any text with a chapter or front-matter marker
IsTableOfContentsNoLabel(str) ==
  Includes(str, ChapterWord) \/ Includes(str, FrontMatterWords)

\* the test that routes a text to formatPDFTableOfContents
IsTableOfContents(str) ==
  Includes(str, PageLabel) /\ (Includes(str, ChapterWord) \/ Includes(str, FrontMatterWords))

----------------------------------------------------------------------------
(* Inputs *)

FontSize == 40
MaxInlineLen == 5

InlineAlphabet == {"a", "b", " ", "*", "_"}

\* "**a** *b* c"
StyleRoundTripText == <<"*", "*", "a", "*", "*", " ", "*", "b", "*", " ", "c">>

\* "a**b_b": a doubled marker that is never closed
UnclosedMarkerText == <<"a", "*", "*", "b", "_", "b">>

InlineTexts ==
  SeqsUpTo(InlineAlphabet, MaxInlineLen) \cup {StyleRoundTripText, UnclosedMarkerText}

NoOpts == [maxWidth |-> 0]
NoFont == [style |-> "normal", size |-> FontSize]

----------------------------------------------------------------------------
(* Specification of parsePDFMarkdown: the entry, then one step per line of  *)
(* the text, in the normal flow or in the table-of-contents formatter       *)

MaxLines == 2

BlankLine == <<" ">>
EmptyLine == <<>>
RuleLine == <<"-", "-", "-">>
HeaderLine == <<"#", " ", "a", " ", "a">>
OrderedLine == <<"1", ".", " ", "a", " ", "a">>
UnorderedLine == <<"-", " ", "*", "*", "a", "*", "*", " ", "a">>
MarkerOnlyLine == <<"-", " ", "*", "*">>
ParagraphLine == <<"a", " ", "a", " ", "a", " ", "a", " ", "*", "*", "a", "*", "*">>
LongWordLine == <<"a", "a", "a", "a", "a", "a">>
IndentedLine == <<" ", " ", "a", "*", "a", "*">>
\* "Bab 1 Title"
ChapterOnlyLine == ChapterWord \o <<" ", "1", " ", "T", "i", "t", "l", "e">>
\* "Bab 1 Title - Halaman 5"
TocChapterLine == ChapterOnlyLine \o <<" ">> \o PageLabel \o <<" ", "5">>
\* "Kata Pengantar - Halaman 2"
TocFrontMatterLine == FrontMatterWords \o <<" ">> \o PageLabel \o <<" ", "2">>
\* "1.1 a - Halaman 6"
TocSubChapterLine == <<"1", ".", "1", " ", "a", " ">> \o PageLabel \o <<" ", "6">>

LinePool ==
  {BlankLine, EmptyLine, RuleLine, HeaderLine, OrderedLine, UnorderedLine,
   MarkerOnlyLine, ParagraphLine, LongWordLine, IndentedLine, ChapterOnlyLine,
   TocChapterLine, TocFrontMatterLine, TocSubChapterLine}

RECURSIVE JoinLines(_)
\* the lines joined by "\n"
JoinLines(ls) ==
  IF ls = <<>> THEN <<>>
  ELSE IF Len(ls) = 1 THEN Head(ls)
  ELSE Head(ls) \o <<NL>> \o JoinLines(Tail(ls))

\* two content lines with two blank lines between them, and with a rule
\* on a line of its own between them
TwoBlankLinesText == JoinLines(<<HeaderLine, EmptyLine, EmptyLine, LongWordLine>>)
RuleBetweenText == JoinLines(<<OrderedLine, RuleLine, LongWordLine>>)

\* "Kata Pengantar - Halaman 112": an entry with a page number of three digits
TocThreeDigitText == FrontMatterWords \o <<" ">> \o PageLabel \o <<" ", "1", "1", "2">>

\* "Bab 1 Title - Halaman 5" and "Bab 2 ad", a chapter line without a page
\* number whose last word ends in a letter of the roman numerals
TocWordEndText == JoinLines(<<TocChapterLine, ChapterWord \o <<" ", "2", " ", "a", "d">> >>)

\* "1. a a a": an item whose content is as wide as its column
FullColumnText == <<"1", ".", " ", "a", " ", "a", " ", "a">>

FlowTexts ==
  {JoinLines(ls) : ls \in SeqsUpTo(LinePool, MaxLines)}
     \cup {TwoBlankLinesText, RuleBetweenText, TocThreeDigitText, TocWordEndText,
           FullColumnText}

Aligns == {"left", "center", "right", "justify"}
StartYs == {Y(60), Y(270), Y(290)}
\* the paragraph size the host leaves on the surface: FontSize, or the default
\* 12 pt, about 4 units when the unit is the millimetre
DefaultFontSize == 4
EntryFonts == [style : {"normal", "bold"}, size : {FontSize, DefaultFontSize}]

FlowOptions ==
  [maxWidth : {95}, align : Aligns, fontSize : {FontSize}, lineHeight : {Y(7)},
   x : {25}, y : StartYs, pageHeight : {Y(297)}, pageWidth : {840},
   entryFont : EntryFonts]

Init ==
  /\ pc = "parsePDFMarkdown"
  /\ text \in FlowTexts
  /\ opts \in FlowOptions
  /\ segments = <<>>
  /\ lines = <<>>
  /\ lineIndex = 0
  /\ textLines = <<>>
  /\ currentY = 0
  /\ font = opts.entryFont
  /\ pages = 0
  /\ draws = <<>>
  /\ emitted = <<>>
  /\ ret = 0
  /\ chapters = <<>>

\* the flow state the variables hold
FlowState ==
  [currentY |-> currentY, pages |-> pages, font |-> font, draws |-> draws,
   emitted |-> emitted, mark |-> [y |-> currentY, pages |-> pages]]

\* an entry test that never returns early
IsEmptyTextNever(str) == FALSE

\* !text
IsEmptyText(str) == str = <<>>

\* if (!text) return y
ReturnEmpty ==
  /\ pc = "parsePDFMarkdown"
  /\ IsEmptyText(text)
  /\ ret' = opts.y
  /\ pc' = "returned"
  /\ UNCHANGED <<chapters, text, opts, segments, lines, lineIndex, textLines, currentY, font,
                 pages, draws, emitted>>

\* the text is routed to formatPDFTableOfContents
EnterToc ==
  /\ pc = "parsePDFMarkdown"
  /\ ~IsEmptyText(text)
  /\ IsTableOfContents(Normalize(text))
  /\ textLines' = SplitNewlines(Normalize(text), <<>>)
  /\ currentY' = opts.y
  /\ pc' = "toc"
  /\ UNCHANGED <<chapters, text, opts, segments, lines, lineIndex, font, pages, draws, emitted, ret>>

\* the text enters the normal flow
EnterFlow ==
  /\ pc = "parsePDFMarkdown"
  /\ ~IsEmptyText(text)
  /\ ~IsTableOfContents(Normalize(text))
  /\ font' = [style |-> "normal", size |-> opts.fontSize]
  /\ textLines' = SplitNewlines(Normalize(text), <<>>)
  /\ currentY' = opts.y
  /\ pc' = "flow"
  /\ UNCHANGED <<chapters, text, opts, segments, lines, lineIndex, pages, draws, emitted, ret>>

\* the state after one more line has been handled by step
Stepped(st) ==
  /\ currentY' = st.currentY
  /\ pages' = st.pages
  /\ font' = st.font
  /\ draws' = st.draws
  /\ emitted' = st.emitted
  /\ lineIndex' = lineIndex + 1
  /\ textLines' = Tail(textLines)
  /\ UNCHANGED <<chapters, pc, text, opts, segments, lines, ret>>

\* one iteration of the for loop of parsePDFMarkdown
FlowLine ==
  /\ pc = "flow"
  /\ textLines # <<>>
  /\ Stepped(LayoutLine(FlowState, Head(textLines), lineIndex + 1, opts))

\* one iteration of the for loop of formatPDFTableOfContents
TocEntry ==
  /\ pc = "toc"
  /\ textLines # <<>>
  /\ Stepped(TocLine(FlowState, Head(textLines), lineIndex + 1, opts))

\* return currentY, of either loop
ReturnCursor ==
  /\ pc \in {"flow", "toc"}
  /\ textLines = <<>>
  /\ ret' = currentY
  /\ pc' = "returned"
  /\ UNCHANGED <<chapters, text, opts, segments, lines, lineIndex, textLines, currentY, font,
                 pages, draws, emitted>>

Next ==
  \/ ReturnEmpty
  \/ EnterToc
  \/ EnterFlow
  \/ FlowLine
  \/ TocEntry
  \/ ReturnCursor

Spec == Init /\ [][Next]_vars

----------------------------------------------------------------------------
(* Claims about parsePDFMarkdown *)

\* the call went through the normal flow / through the table-of-contents formatter
InNormalFlow ==
  \/ pc = "flow"
  \/ pc = "returned" /\ text # <<>> /\ ~IsTableOfContents(Normalize(text))
InTocFormatter ==
  \/ pc = "toc"
  \/ pc = "returned" /\ text # <<>> /\ IsTableOfContents(Normalize(text))

\* the markers and wrapped lines emitted so far
TextEmissions == {k \in 1..Len(emitted) : emitted[k].kind \in {"marker", "line"}}

\* C2: in the normal flow a marker or wrapped line that would start at a
\* cursor y with y + lineHeight > pageHeight - 20 is preceded by exactly one
\* new page and drawn at the reset cursor, any other is drawn at the cursor
\* on the same page; so no text is drawn at a y with y + lineHeight beyond
\* pageHeight - 20 (a line fitting on a fresh page); and from y = 290 on a
\* page of height 297 with line height 7 a one-line text asks for one page.
C2_PageBreakBeforeLine ==
  (InNormalFlow /\ NewPageY(opts) + opts.lineHeight <= MaxY(opts)) =>
     /\ \A k \in TextEmissions :
           IF emitted[k].yIn + opts.lineHeight > MaxY(opts)
           THEN emitted[k].page = emitted[k].pagesIn + 1 /\ emitted[k].y = NewPageY(opts)
           ELSE emitted[k].page = emitted[k].pagesIn /\ emitted[k].y = emitted[k].yIn
     /\ \A j \in 1..Len(draws) :
           /\ draws[j].y + opts.lineHeight <= MaxY(opts)
           /\ \E k \in TextEmissions :
                 /\ emitted[k].src = draws[j].src
                 /\ emitted[k].line = draws[j].line
                 /\ emitted[k].y = draws[j].y
                 /\ emitted[k].page = draws[j].page
     /\ (/\ pc = "returned"
         /\ opts.pageHeight = Y(297) /\ opts.y = Y(290) /\ opts.lineHeight = Y(7)
         /\ Cardinality(TextEmissions) = 1) => pages = 1

\* the scenario: one line laid out from y = 290, drawn on the new page
C2_Witness ==
  /\ pc = "returned"
  /\ InNormalFlow
  /\ opts.pageHeight = Y(297) /\ opts.y = Y(290) /\ opts.lineHeight = Y(7)
  /\ Cardinality(TextEmissions) = 1
  /\ Len(draws) >= 1
  /\ draws[1].page = 1 /\ draws[1].y = NewPageY(opts)

\* C3: no entry of the table of contents is drawn beyond pageHeight - 20: a
\* new page is requested and the cursor reset before such an entry.
C3_TocPageBreak ==
  InTocFormatter =>
     \A j \in 1..Len(draws) : draws[j].y <= MaxY(opts)

\* C4: with an empty text parsePDFMarkdown returns y and draws nothing, changes
\* no font and requests no page.
C4_EmptyText ==
  (pc = "returned" /\ text = <<>>) =>
     /\ ret = opts.y
     /\ draws = <<>>
     /\ emitted = <<>>
     /\ font = opts.entryFont
     /\ pages = 0

C4_Witness == pc = "returned" /\ text = <<>> /\ opts.entryFont.style = "bold"

\* the blank lines of the normalized text
BlankLineCount ==
  LET ls == SplitNewlines(Normalize(text), <<>>)
  IN Cardinality({k \in 1..Len(ls) : Trim(ls[k]) = <<>>})

WrappedLineCount == Cardinality({k \in 1..Len(emitted) : emitted[k].kind = "line"})

\* the advances made on the current page: its wrapped lines and the blank
\* lines that did not end in a page break
AdvancesOnPage ==
  Cardinality({k \in 1..Len(emitted) :
     /\ emitted[k].page = pages
     /\ \/ emitted[k].kind = "line"
        \/ emitted[k].kind = "blank" /\ emitted[k].page = emitted[k].pagesIn})

\* C5: in the normal flow the cursor is the start of the page (y, or the reset
\* value after a page break) plus one lineHeight for each blank line and each
\* wrapped line since, headings included; the value returned is the cursor;
\* without a page break it is y + lineHeight * (blank lines + wrapped lines).
C5_CursorAdvance ==
  InNormalFlow =>
     /\ currentY = (IF pages = 0 THEN opts.y ELSE NewPageY(opts))
                   + opts.lineHeight * AdvancesOnPage
     /\ pc = "returned" =>
           /\ ret = currentY
           /\ pages = 0 =>
                ret = opts.y + opts.lineHeight * (BlankLineCount + WrappedLineCount)

\* a text with a blank line, a heading and wrapped lines, returned without a page break
C5_Witness ==
  /\ pc = "returned"
  /\ InNormalFlow
  /\ pages = 0
  /\ BlankLineCount >= 1
  /\ WrappedLineCount >= 2
  /\ ret > opts.y

\* the routing test as the claim states it
ClaimedTocShape(str) ==
  /\ \E k \in 1..(Len(str) - 8) : SubSeq(str, k, k + 8) = PageLabel
  /\ \/ \E k \in 1..(Len(str) - 2) : SubSeq(str, k, k + 2) = ChapterWord
     \/ \E k \in 1..(Len(str) - 13) : SubSeq(str, k, k + 13) = FrontMatterWords

\* C8: a text goes to the ToC formatter iff its normalized text contains
\* "- Halaman" and "Bab" or "Kata Pengantar"; the text with "Bab 1 Title -
\* Halaman 5" and "Kata Pengantar - Halaman 2" is laid out as ToC entries
\* only, and "Bab 1 Title" alone as a paragraph of the normal flow.
C8_TocRouting ==
  /\ pc = "toc" => ClaimedTocShape(Normalize(text))
  /\ pc = "flow" => ~ClaimedTocShape(Normalize(text))
  /\ (pc = "returned" /\ lineIndex > 0) =>
        IF ClaimedTocShape(Normalize(text))
        THEN \A k \in 1..Len(emitted) : emitted[k].kind \in {"entry", "blank"}
        ELSE \A k \in 1..Len(emitted) : emitted[k].kind \in {"marker", "line", "blank"}
  /\ (pc = "returned" /\ text = JoinLines(<<TocChapterLine, TocFrontMatterLine>>)) =>
        /\ Len(emitted) = 2
        /\ \A k \in 1..2 : emitted[k].kind = "entry"
  /\ (pc = "returned" /\ text = ChapterOnlyLine) =>
        /\ emitted # <<>>
        /\ \A k \in 1..Len(emitted) : emitted[k].kind = "line"
        /\ \A j \in 1..Len(draws) : draws[j].kind = "run"

C8_Witness ==
  /\ pc = "returned"
  /\ text = JoinLines(<<TocChapterLine, TocFrontMatterLine>>)
  /\ Len(emitted) = 2
  /\ emitted[1].kind = "entry"

\* the lines parsePDFMarkdown iterates over, trimmed
SourceLines == SplitNewlines(Normalize(text), <<>>)
SourceLine(k) == Trim(SourceLines[k])

\* C13: every draw of the text of a heading of level L is issued with the
\* surface font bold and at base * (2.5 - 0.3 * L), whatever the alignment,
\* and after a heading the surface is at the base size and normal weight.
C13_HeadingFont ==
  InNormalFlow =>
     /\ \A j \in 1..Len(draws) :
           HeaderMatch(SourceLine(draws[j].src)) =>
              draws[j].font = [style |-> "bold",
                               size |-> HeadingFontSize(opts, HeaderLevel(SourceLine(draws[j].src)))]
     /\ (lineIndex >= 1 /\ HeaderMatch(SourceLine(lineIndex))) =>
           font = [style |-> "normal", size |-> opts.fontSize]

\* the text is two content lines with two or more blank lines between them,
\* "---" being read as the line break it is turned into
TwoContentLinesApart ==
  LET raw == SplitNewlines(ReplaceRules(text), <<>>)
  IN /\ Len(raw) >= 4
     /\ Trim(raw[1]) # <<>>
     /\ Trim(raw[Len(raw)]) # <<>>
     /\ \A k \in 2..(Len(raw) - 1) : Trim(raw[k]) = <<>>

BlankEmissions == {k \in 1..Len(emitted) : emitted[k].kind = "blank"}

\* C20: every "---" becomes a line break and a run of two or more blank lines
\* is collapsed to one: two content lines with two or more blank lines between
\* them are laid out with exactly one blank line between them, one advance of
\* lineHeight that draws nothing, and no rule is drawn.
C20_BlankLinesCollapse ==
  (pc = "returned" /\ InNormalFlow) =>
     /\ \A j \in 1..Len(draws) : ~Includes(draws[j].text, RuleLine)
     /\ TwoContentLinesApart =>
           /\ Cardinality(BlankEmissions) = 1
           /\ \A k \in BlankEmissions :
                 /\ \E i \in 1..(k - 1) : emitted[i].kind = "line"
                 /\ \E i \in (k + 1)..Len(emitted) : emitted[i].kind = "line"
           /\ pages = 0 => ret = opts.y + opts.lineHeight * (WrappedLineCount + 1)

\* the draws of the title (prefix and title) of the entry of source line k
TitleDraws(k) == SelectSeq(draws, LAMBDA d : d.src = k /\ d.kind = "title")

\* the source line k of the table of contents is a chapter entry
ChapterEntryLine(k) == SourceLine(k) # <<>> /\ IsChapterEntry(TocContent(SourceLine(k)))

\* "Bab N" of a chapter content: the word, the whitespace and the digits
ChapterLabel(content) ==
  Take(content, 3 + LeadingSpaces(Drop(content, 3))
                  + LeadingDigits(TrimStart(Drop(content, 3))))

\* C21: for a chapter line of the table of contents the prefix "Bab N" is
\* drawn at the entry's x, the rest of the content as the title 15 units to
\* the right, and the cursor moves on by one and a half line heights.
C21_ChapterEntry ==
  InTocFormatter =>
     /\ \A k \in 1..lineIndex :
           ChapterEntryLine(k) =>
              LET content == TocContent(SourceLine(k))
                  label   == ChapterLabel(content)
              IN /\ Len(TitleDraws(k)) = 2
                 /\ TitleDraws(k)[1].text = label
                 /\ TitleDraws(k)[1].x = <<opts.x, 1>>
                 /\ TitleDraws(k)[2].text = Trim(Drop(content, Len(label)))
                 /\ TitleDraws(k)[2].x = <<opts.x + 15, 1>>
     /\ (lineIndex >= 1 /\ ChapterEntryLine(lineIndex)) =>
           currentY = emitted[Len(emitted)].y + opts.lineHeight + opts.lineHeight \div 2

\* the indices of the draws of the dots and of the page number of entry k
DotDraws(k) == {j \in 1..Len(draws) : draws[j].src = k /\ draws[j].kind = "dot"}
PageNumberDraws(k) == {j \in 1..Len(draws) : draws[j].src = k /\ draws[j].kind = "pageNumber"}

\* the source line k of the table of contents is an entry
EntryLine(k) == SourceLine(k) # <<>>

\* the x the leader of entry k starts at, and the left edge of the column of
\* the page numbers
LeaderStart(k) ==
  LET shape == TocShape(TocContent(SourceLine(k)))
  IN TocDots(shape, opts, [style |-> shape.weight, size |-> opts.entryFont.size]).start
PageNumberColumn == opts.pageWidth - TocMarginRight - PageNumberWidth

\* C22: the dotted leader of an entry has floor(gap / (dotWidth + 2)) dots,
\* none when the gap is not positive, at a pitch of dotWidth + 2 from the
\* start of the gap, and no dot overlaps the page number as it is drawn.
C22_LeaderClearOfPageNumber ==
  InTocFormatter =>
     \A k \in 1..lineIndex :
        EntryLine(k) =>
           LET dots     == DotDraws(k)
               start    == LeaderStart(k)
               pitch    == getTextWidth(<<".">>, [style |-> "normal",
                                                  size |-> opts.entryFont.size]) + DotSpacing
               gap      == PageNumberColumn - start
               count    == IF gap > 0 THEN gap \div pitch ELSE 0
               numbers  == PageNumberDraws(k)
               left     == {DrawLeft(draws[j]) : j \in numbers}
               right    == {DrawRight(draws[j]) : j \in numbers}
           IN /\ Cardinality(dots) = count
              /\ {DrawLeft(draws[j]) : j \in dots} = {start + i * pitch : i \in 0..(count - 1)}
              /\ \A j \in dots :
                    \/ \A l \in left : DrawRight(draws[j]) <= l
                    \/ \A r \in right : r <= DrawLeft(draws[j])

\* the indices of the draws of the prefix and the title of entry k
TitleDrawIndices(k) == {j \in 1..Len(draws) : draws[j].src = k /\ draws[j].kind = "title"}

\* C23: the dotted leader of an entry starts at or after the right edge of the
\* title as it is drawn, for an entry with a prefix (title at startX + 15) as
\* for one without (title at startX).
C23_LeaderAfterTitle ==
  InTocFormatter =>
     \A k \in 1..lineIndex :
        EntryLine(k) =>
           LET edges == {DrawRight(draws[j]) : j \in TitleDrawIndices(k)}
           IN \A j \in DotDraws(k) : \A e \in edges : e <= DrawLeft(draws[j])

\* the last whitespace-delimited token of a trimmed line, and what precedes it
LastToken(line) == Reverse(Take(Reverse(line), LeadingWord(Reverse(line))))
BeforeLastToken(line) == Trim(Take(line, Len(line) - Len(LastToken(line))))

\* a decimal or lowercase roman numeral
IsNumeralToken(tok) ==
  /\ tok # <<>>
  /\ \/ \A i \in 1..Len(tok) : IsDigit(tok[i])
     \/ \A i \in 1..Len(tok) : tok[i] \in {"i", "v", "x", "l", "c", "d", "m"}

\* C24: the page number taken from a non-blank line of the table of contents
\* is its whole last token when that token is a decimal or lowercase roman
\* numeral (the page label before it goes too); any other line keeps its
\* entire content as title and gets an empty page number.
C24_PageNumberToken ==
  InTocFormatter =>
     \A k \in 1..lineIndex :
        EntryLine(k) =>
           LET line == SourceLine(k)
           IN /\ Cardinality(PageNumberDraws(k)) = 1
              /\ \A j \in PageNumberDraws(k) :
                    draws[j].text = (IF IsNumeralToken(LastToken(line))
                                     THEN LastToken(line) ELSE <<>>)
              /\ TocContent(line) = (IF IsNumeralToken(LastToken(line))
                                     THEN StripPageLabel(BeforeLastToken(line))
                                     ELSE line)

\* the runs the breaker returns for source line s, in drawing order
RunsOfLine(s) ==
  LET raw        == SourceLines[s]
      line       == Trim(raw)
      indent     == calculateIndentation(raw)
      listIndent == IndentationWidth(indent, opts.fontSize)
      base       == [style |-> "normal", size |-> opts.fontSize]
  IN IF line = <<>> THEN <<>>
     ELSE IF HeaderMatch(line)
     THEN Flatten(splitTextToLines(parseInlineMarkdown(HeaderContent(line)), opts.maxWidth,
                     indent, [base EXCEPT !.size = HeadingFontSize(opts, HeaderLevel(line))]))
     ELSE IF OrderedListMatch(line)
     THEN Flatten(splitTextToLines(parseInlineMarkdown(OrderedContent(line)),
                     opts.maxWidth - (listIndent + 5), indent, base))
     ELSE IF UnorderedListMatch(line)
     THEN Flatten(splitTextToLines(parseInlineMarkdown(UnorderedContent(line)),
                     opts.maxWidth - (listIndent + 5), indent, base))
     ELSE Flatten(splitTextToLines(parseInlineMarkdown(line), opts.maxWidth, indent, base))

\* the draws of the runs of source line s
RunDraws(s) == {j \in 1..Len(draws) : draws[j].src = s /\ draws[j].kind = "run"}

\* the weight and slant a run asks for
WeightSlant(style) ==
  CASE style.bold /\ style.italic   -> "bolditalic"
    [] style.bold /\ ~style.italic  -> "bold"
    [] ~style.bold /\ style.italic  -> "italic"
    [] ~style.bold /\ ~style.italic -> "normal"

ListItemLine(s) ==
  /\ SourceLine(s) # <<>>
  /\ ~HeaderMatch(SourceLine(s))
  /\ OrderedListMatch(SourceLine(s)) \/ UnorderedListMatch(SourceLine(s))

\* the width of the column of the item on source line s, the width the line
\* renderer is given for it
ItemColumnWidth(s) ==
  opts.maxWidth - (IndentationWidth(calculateIndentation(SourceLines[s]), opts.fontSize) + 5)

\* the content of the item on source line s broken within its column
ItemLinesInColumn(s) ==
  LET line == SourceLine(s)
      segs == parseInlineMarkdown(IF OrderedListMatch(line) THEN OrderedContent(line)
                                  ELSE UnorderedContent(line))
  IN splitTextToLines(segs, ItemColumnWidth(s), 0,
                      [style |-> "normal", size |-> opts.fontSize])

\* C26: the content of a list item is broken within the width of the item's
\* column, maxWidth - (baseIndentation * fontSize + 5), the width the line
\* renderer gets: the wrapped lines drawn for the item are those of its
\* content broken at that width, the indentation being taken off once.
C26_ListColumnWidth ==
  InNormalFlow =>
     \A s \in 1..lineIndex :
        ListItemLine(s) =>
           LET expected == ItemLinesInColumn(s)
           IN /\ Cardinality({k \in 1..Len(emitted) :
                                 emitted[k].src = s /\ emitted[k].kind = "line"}) = Len(expected)
              /\ \A k \in 1..Len(expected) :
                    LET drawn == {j \in RunDraws(s) : draws[j].line = k}
                    IN /\ Cardinality(drawn) = Len(expected[k])
                       /\ \A j \in drawn :
                             draws[j].text =
                                expected[k][Cardinality({i \in drawn : i <= j})].text

\* the wrapped lines emitted for source line s
LineEmissions(s) == {k \in 1..Len(emitted) : emitted[k].src = s /\ emitted[k].kind = "line"}

\* C27: in the normal flow every non-blank source line advances the cursor by
\* at least one lineHeight, a line made of emphasis markers only included, so
\* no two draws of different source lines are at the same y on the same page.
C27_LineAdvances ==
  InNormalFlow =>
     /\ \A s \in 1..lineIndex : SourceLine(s) # <<>> => LineEmissions(s) # {}
     /\ \A i, j \in 1..Len(draws) :
           draws[i].src # draws[j].src =>
              ~(draws[i].y = draws[j].y /\ draws[i].page = draws[j].page)

\* C28: in the normal flow the marker of a list item, "N." or the bullet, is
\* drawn with the surface at normal weight and at the base font size,
\* whatever was laid out before it in the same call, a line ending in a bold
\* or italic run included.
C28_MarkerFont ==
  InNormalFlow =>
     \A j \in 1..Len(draws) :
        draws[j].kind = "marker" =>
           draws[j].font = [style |-> "normal", size |-> opts.fontSize]

----------------------------------------------------------------------------
(* Specification of parseInlineMarkdown alone *)

InitInline ==
  /\ pc = "parseInline"
  /\ text \in InlineTexts
  /\ opts = NoOpts
  /\ segments = <<>>
  /\ lines = <<>>
  /\ lineIndex = 0
  /\ textLines = <<>>
  /\ currentY = 0
  /\ font = NoFont
  /\ pages = 0
  /\ draws = <<>>
  /\ emitted = <<>>
  /\ ret = 0
  /\ chapters = <<>>

ParseInline ==
  /\ pc = "parseInline"
  /\ segments' = parseInlineMarkdown(text)
  /\ pc' = "parsedInline"
  /\ UNCHANGED <<chapters, text, opts, lines, lineIndex, textLines, currentY, font, pages,
                 draws, emitted, ret>>

NextInline == ParseInline

SpecInline == InitInline /\ [][NextInline]_vars

----------------------------------------------------------------------------
(* Claims about parseInlineMarkdown *)

Bold == [PlainStyle EXCEPT !.bold = TRUE]
Italic == [PlainStyle EXCEPT !.italic = TRUE]

RECURSIVE StripMarkers(_)
StripMarkers(str) ==
  IF str = <<>> THEN <<>>
  ELSE IF Head(str) \in {"*", "_"} THEN StripMarkers(Tail(str))
  ELSE <<Head(str)>> \o StripMarkers(Tail(str))

SegmentTexts(segs) == Flatten([k \in 1..Len(segs) |-> segs[k].text])

\* C9 as written: "**a** *b* c" parses to five runs "a" bold, " " plain,
\* "b" italic, " " plain, "c" plain.
C9_FiveRuns ==
  (pc = "parsedInline" /\ text = StyleRoundTripText) =>
     segments = << [text |-> <<"a">>, style |-> Bold],
                   [text |-> <<" ">>, style |-> PlainStyle],
                   [text |-> <<"b">>, style |-> Italic],
                   [text |-> <<" ">>, style |-> PlainStyle],
                   [text |-> <<"c">>, style |-> PlainStyle] >>

\* C9 amended: "**a** *b* c" parses to four runs "a" bold, " " plain,
\* "b" italic, " c" plain: text is cut at markers only, never at spaces.
C9_FourRuns ==
  (pc = "parsedInline" /\ text = StyleRoundTripText) =>
     segments = << [text |-> <<"a">>, style |-> Bold],
                   [text |-> <<" ">>, style |-> PlainStyle],
                   [text |-> <<"b">>, style |-> Italic],
                   [text |-> <<" ", "c">>, style |-> PlainStyle] >>

C9_Witness == pc = "parsedInline" /\ text = StyleRoundTripText /\ Len(segments) = 4

\* C10: the runs of parseInlineMarkdown are in source order, none is empty,
\* none holds a '*' or '_', and their texts concatenate to the input with
\* every '*' and '_' removed.
C10_RunsAreStrippedSource ==
  pc = "parsedInline" =>
     /\ \A k \in 1..Len(segments) :
           /\ segments[k].text # <<>>
           /\ \A j \in 1..Len(segments[k].text) : segments[k].text[j] \notin {"*", "_"}
     /\ SegmentTexts(segments) = StripMarkers(text)

C10_Witness ==
  /\ pc = "parsedInline"
  /\ Len(segments) >= 2
  /\ Len(StripMarkers(text)) < Len(text)
  /\ Last(text) \notin {"*", "_"}

RECURSIVE MarkerTokens(_)
\* the text read left to right: kind "D" for a doubled marker ("**" or
\* "__"), "S" for any other marker character, "c" for a character of text
MarkerTokens(str) ==
  IF str = <<>> THEN <<>>
  ELSE IF Head(str) \in {"*", "_"}
       THEN IF Len(str) >= 2 /\ str[2] = Head(str)
            THEN <<[kind |-> "D", char |-> Head(str)]>> \o MarkerTokens(Drop(str, 2))
            ELSE <<[kind |-> "S", char |-> Head(str)]>> \o MarkerTokens(Tail(str))
       ELSE <<[kind |-> "c", char |-> Head(str)]>> \o MarkerTokens(Tail(str))

\* the number of tokens of a kind among the first n tokens
TokensBefore(toks, n, kind) == Cardinality({j \in 1..n : toks[j].kind = kind})

\* the positions where a run starts: a character that follows no character
RunStarts(toks) ==
  {j \in 1..Len(toks) : toks[j].kind = "c" /\ (j = 1 \/ toks[j - 1].kind # "c")}

\* the k-th smallest element of a set of numbers
Nth(S, k) == CHOOSE x \in S : Cardinality({y \in S : y <= x}) = k

\* C19: styles are toggled and never balanced: the bold flag of each run is
\* the parity of the doubled markers before it, its italic flag the parity of
\* the single markers before it, markers being read greedily from the left;
\* a marker that is not closed stays in force on every later run.
C19_StyleParity ==
  pc = "parsedInline" =>
     LET toks == MarkerTokens(text)
     IN /\ Len(segments) = Cardinality(RunStarts(toks))
        /\ \A k \in 1..Len(segments) :
              LET start == Nth(RunStarts(toks), k)
              IN /\ segments[k].style.bold = (TokensBefore(toks, start, "D") % 2 = 1)
                 /\ segments[k].style.italic = (TokensBefore(toks, start, "S") % 2 = 1)
                 /\ segments[k].text[1] = toks[start].char

\* a doubled marker that is never closed, in force on two later runs
C19_Witness ==
  /\ pc = "parsedInline"
  /\ TokensBefore(MarkerTokens(text), Len(MarkerTokens(text)), "D") = 1
  /\ Len(segments) >= 3
  /\ ~segments[1].style.bold
  /\ segments[2].style.bold
  /\ segments[3].style.bold

----------------------------------------------------------------------------
(* Specification of the paragraph pipeline: parseInlineMarkdown, then       *)
(* splitTextToLines, then renderJustifiedLine on one of the lines, with the *)
(* arguments parsePDFMarkdown gives them for a plain paragraph              *)

MaxBreakLen == 7

BreakAlphabet == {"a", " ", "*"}
\* "**a** .": a bold character, then a word of one narrow glyph
NarrowWordText == <<"*", "*", "a", "*", "*", " ", ".">>
BreakTexts == SeqsUpTo(BreakAlphabet, MaxBreakLen) \cup {NarrowWordText}
BreakWidths == {35, 55, 95}
\* indentation levels, in quarters
BreakIndentations == {0, 1}

InitBreak ==
  /\ pc = "parseInline"
  /\ text \in BreakTexts
  /\ opts \in [maxWidth : BreakWidths, baseIndentation : BreakIndentations,
               x : {20}, fontSize : {FontSize}]
  /\ segments = <<>>
  /\ lines = <<>>
  /\ lineIndex = 0
  /\ textLines = <<>>
  /\ currentY = 0
  /\ font = NoFont
  /\ pages = 0
  /\ draws = <<>>
  /\ emitted = <<>>
  /\ ret = 0
  /\ chapters = <<>>

SplitLines ==
  /\ pc = "parsedInline"
  /\ lines' = splitTextToLines(segments, opts.maxWidth, opts.baseIndentation, font)
  /\ font' = StyleAfterSplit(segments, font)
  /\ pc' = "split"
  /\ UNCHANGED <<chapters, text, opts, segments, lineIndex, textLines, currentY, pages,
                 draws, emitted, ret>>

RenderJustified(k) ==
  /\ pc = "split"
  /\ k \in 1..Len(lines)
  /\ lineIndex' = k
  /\ draws' = renderJustifiedLine(lines[k],
                 opts.x + IndentationWidth(opts.baseIndentation, opts.fontSize),
                 opts.maxWidth - IndentationWidth(opts.baseIndentation, opts.fontSize),
                 k = Len(lines), font)
  /\ font' = IF draws' = <<>> THEN font ELSE Last(draws').font
  /\ pc' = "rendered"
  /\ UNCHANGED <<chapters, text, opts, segments, lines, textLines, currentY, pages, emitted, ret>>

NextBreak ==
  \/ ParseInline
  \/ SplitLines
  \/ \E k \in 1..MaxBreakLen : RenderJustified(k)

SpecBreak == InitBreak /\ [][NextBreak]_vars

----------------------------------------------------------------------------
(* Claims about splitTextToLines and renderJustifiedLine *)

BreakAvailableWidth == AvailableWidth(opts.maxWidth, opts.baseIndentation, opts.fontSize)

RenderedLine == lines[lineIndex]
RenderX == opts.x + IndentationWidth(opts.baseIndentation, opts.fontSize)
RenderWidth == opts.maxWidth - IndentationWidth(opts.baseIndentation, opts.fontSize)

\* fractions <<n, d>> with d > 0
FracEq(p, q) == p[1] * q[2] = q[1] * p[2]
FracPlus(p, q) == <<p[1] * q[2] + q[1] * p[2], p[2] * q[2]>>

\* the preconditions of the gap distribution: a rendered line that is not the
\* paragraph's last, with more than one run, a space run and no overflow
JustifiedCase ==
  /\ pc = "rendered"
  /\ lineIndex < Len(lines)
  /\ Len(RenderedLine) > 1
  /\ NumberOfSpaces(RenderedLine) >= 1
  /\ LineWidth(RenderedLine, opts.fontSize) <= RenderWidth

\* C6: on a justified line that is not the last, with N >= 1 space runs and total
\* width T <= maxWidth, the advance after each space run is its width plus
\* (maxWidth - T) / N, the advance after any other run is its width, and the
\* pen ends at x + maxWidth.
C6_GapDistribution ==
  JustifiedCase =>
     LET n     == Len(RenderedLine)
         gap   == <<RenderWidth - LineWidth(RenderedLine, opts.fontSize),
                    NumberOfSpaces(RenderedLine)>>
         w(i)  == <<SegmentWidth(RenderedLine[i], opts.fontSize), 1>>
         adv(i) == IF RenderedLine[i].text = <<" ">> THEN FracPlus(w(i), gap) ELSE w(i)
     IN /\ Len(draws) = n
        /\ FracEq(draws[1].x, <<RenderX, 1>>)
        /\ \A i \in 1..(n - 1) : FracEq(draws[i + 1].x, FracPlus(draws[i].x, adv(i)))
        /\ FracEq(FracPlus(draws[n].x, adv(n)), <<RenderX + RenderWidth, 1>>)

\* a justified line with two gaps and slack to distribute
C6_Witness ==
  /\ JustifiedCase
  /\ NumberOfSpaces(RenderedLine) >= 2
  /\ LineWidth(RenderedLine, opts.fontSize) < RenderWidth

\* C7: with align = justify the paragraph's last line, and any line of at most
\* one run, has each run drawn at x plus the widths of the runs before it.
C7_LastLineOrdinarySpacing ==
  (pc = "rendered" /\ (lineIndex = Len(lines) \/ Len(RenderedLine) <= 1)) =>
     /\ Len(draws) = Len(RenderedLine)
     /\ \A i \in 1..Len(draws) :
           FracEq(draws[i].x,
                  <<RenderX + LineWidth(SubSeq(RenderedLine, 1, i - 1), opts.fontSize), 1>>)

\* the lines splitTextToLines returns when it is given the runs of a line
Rebreak(line) == splitTextToLines(line, opts.maxWidth, opts.baseIndentation, NoFont)

\* C12: breaking again, with the same width, the runs of any line returned by
\* splitTextToLines returns exactly one line, with the runs of that line.
C12_RebreakIdempotent ==
  pc \in {"split", "rendered"} =>
     \A k \in 1..Len(lines) : Rebreak(lines[k]) = <<lines[k]>>

RECURSIVE CollapseSpaces(_)
\* each whitespace run replaced by one space
CollapseSpaces(str) ==
  IF str = <<>> THEN <<>>
  ELSE IF Head(str) = " " /\ Len(str) >= 2 /\ str[2] = " " THEN CollapseSpaces(Tail(str))
  ELSE <<Head(str)>> \o CollapseSpaces(Tail(str))

RECURSIVE JoinBySpace(_)
\* the texts of the lines, consecutive lines joined by one space
JoinBySpace(ls) ==
  IF ls = <<>> THEN <<>>
  ELSE IF Len(ls) = 1 THEN SegmentTexts(Head(ls))
  ELSE SegmentTexts(Head(ls)) \o <<" ">> \o JoinBySpace(Tail(ls))

\* every word of the runs fits the available width
EveryWordFits ==
  \A k \in 1..Len(WordsOf(segments)) :
     SegmentWidth(WordsOf(segments)[k], opts.fontSize) <= BreakAvailableWidth

\* C15: when every word fits the available width, the texts of the runs of the
\* lines of splitTextToLines, consecutive lines joined by one space, are the
\* source text without its markers, each whitespace run collapsed to one space
\* (and trimmed, as a paragraph is): a space run stands only where the source
\* had whitespace, also between adjacent runs of different style.
C15_LinesReconstructSource ==
  (pc \in {"split", "rendered"} /\ EveryWordFits) =>
     JoinBySpace(lines) = Trim(CollapseSpaces(StripMarkers(text)))

RECURSIVE Letters(_)
\* str without its spaces and hyphens (the source texts hold no hyphen)
Letters(str) ==
  IF str = <<>> THEN <<>>
  ELSE IF Head(str) \in {" ", "-"} THEN Letters(Tail(str))
  ELSE <<Head(str)>> \o Letters(Tail(str))

\* some word of the runs is wider than the available width
SomeWordTooWide ==
  \E k \in 1..Len(WordsOf(segments)) :
     SegmentWidth(WordsOf(segments)[k], opts.fontSize) > BreakAvailableWidth

\* C16: a word wider than the available width is not lost: the fragments in
\* the lines of splitTextToLines, their added hyphens removed, read in order
\* give the whole word, so the lines hold every character of the source.
C16_WideWordKept ==
  (pc \in {"split", "rendered"} /\ SomeWordTooWide) =>
     Letters(Flatten([k \in 1..Len(lines) |-> SegmentTexts(lines[k])]))
        = Letters(StripMarkers(text))

\* the parts splitWordIfNeeded cuts the too-wide words of the runs into
SplitParts ==
  UNION {{p.text : p \in
            {splitWordIfNeeded(w.text, w.style, opts.fontSize, BreakAvailableWidth)[j] :
               j \in 1..Len(splitWordIfNeeded(w.text, w.style, opts.fontSize,
                                              BreakAvailableWidth))}} :
         w \in {WordsOf(segments)[k] : k \in {k \in 1..Len(WordsOf(segments)) :
                   SegmentWidth(WordsOf(segments)[k], opts.fontSize) > BreakAvailableWidth}}}

\* the line starts with a word of the source that fits and that no cut produced
StartsWithUnsplitWord(line) ==
  /\ line # <<>>
  /\ \E k \in 1..Len(WordsOf(segments)) : WordsOf(segments)[k] = line[1]
  /\ SegmentWidth(line[1], opts.fontSize) <= BreakAvailableWidth
  /\ line[1].text \notin SplitParts

\* C18: line breaking is greedy: of two consecutive lines of splitTextToLines
\* the second of which starts with an unsplit word w, the first is too full
\* for w: width(first line) + spaceWidth + width(w) > availableWidth.
C18_GreedyBreak ==
  pc \in {"split", "rendered"} =>
     \A k \in 1..(Len(lines) - 1) :
        StartsWithUnsplitWord(lines[k + 1]) =>
           LineWidth(lines[k], opts.fontSize) + getTextWidth(<<" ">>, NoFont)
              + SegmentWidth(lines[k + 1][1], opts.fontSize) > BreakAvailableWidth

\* the runs of all returned lines in order, the space runs left out
WordRuns ==
  SelectSeq(Flatten(lines), LAMBDA seg : seg.text # <<" ">>)

\* C29: when every word of the input fits the available width, the non-space
\* runs of the lines splitTextToLines returns, read in order, are exactly the
\* whitespace-delimited words of the input runs in order, each with the style
\* of its run: the breaker and its width repair lose, repeat, reorder and
\* split no word.
C29_WordsPreserved ==
  (pc \in {"split", "rendered"} /\ EveryWordFits) => WordRuns = WordsOf(segments)

\* words of two styles that fit the width and are returned on several lines
C29_Witness ==
  /\ pc = "split"
  /\ EveryWordFits
  /\ Len(lines) >= 2
  /\ \E i, j \in 1..Len(WordsOf(segments)) :
        WordsOf(segments)[i].style # WordsOf(segments)[j].style

----------------------------------------------------------------------------
(* Specification of calculateIndentation alone; the indentation is counted  *)
(* in quarters, 0.25 being 1                                                *)

MaxIndentLen == 4

IndentAlphabet == {" ", "-", "*", "1", ".", "a"}

\* "  - item" and "no indent"
IndentedItemText == <<" ", " ", "-", " ", "i", "t", "e", "m">>
NoIndentText == <<"n", "o", " ", "i", "n", "d", "e", "n", "t">>

IndentTexts == SeqsUpTo(IndentAlphabet, MaxIndentLen) \cup {IndentedItemText, NoIndentText}

InitIndent ==
  /\ pc = "calculateIndentation"
  /\ text \in IndentTexts
  /\ opts = NoOpts
  /\ segments = <<>>
  /\ lines = <<>>
  /\ lineIndex = 0
  /\ textLines = <<>>
  /\ currentY = 0
  /\ font = NoFont
  /\ pages = 0
  /\ draws = <<>>
  /\ emitted = <<>>
  /\ ret = 0
  /\ chapters = <<>>

CalculateIndentation ==
  /\ pc = "calculateIndentation"
  /\ ret' = calculateIndentation(text)
  /\ pc' = "indented"
  /\ UNCHANGED <<chapters, text, opts, segments, lines, lineIndex, textLines, currentY, font,
                 pages, draws, emitted>>

NextIndent == CalculateIndentation

SpecIndent == InitIndent /\ [][NextIndent]_vars

----------------------------------------------------------------------------
(* Claims about calculateIndentation *)

\* C11: calculateIndentation is 0.5 for "  - item", 0.25 for "no indent" and
\* 0 for the empty string.
C11_IndentationTiers ==
  pc = "indented" =>
     /\ text = IndentedItemText => ret = 2
     /\ text = NoIndentText => ret = 1
     /\ text = <<>> => ret = 0

C11_Witness == pc = "indented" /\ text = IndentedItemText /\ ret = 2

\* the whitespace-stripped line starts with digits then '.', or with '-' or '*'
StartsWithListMarker(str) ==
  LET t == TrimStart(str)
      d == LeadingDigits(t)
  IN \/ t # <<>> /\ t[1] \in {"-", "*"}
     \/ d >= 1 /\ Len(t) >= d + 1 /\ t[d + 1] = "."

\* the same, the marker being followed by at least one whitespace character
StartsWithSpacedListMarker(str) ==
  LET t == TrimStart(str)
      d == LeadingDigits(t)
  IN \/ Len(t) >= 2 /\ t[1] \in {"-", "*"} /\ t[2] = " "
     \/ d >= 1 /\ Len(t) >= d + 2 /\ t[d + 1] = "." /\ t[d + 2] = " "

HasContent(str) == \E k \in 1..Len(str) : str[k] # " "

\* C14 as written: the indentation is floor(n / 2) quarters, n the number of
\* leading whitespace characters, plus 0.25 for a line that starts with a list
\* marker, else 0.75 for a line with any leading whitespace (n >= 1), else
\* 0.25 for a line with non-whitespace content, else 0.
C14_AnyLeadingWhitespace ==
  pc = "indented" =>
     LET n == LeadingSpaces(text)
     IN ret = (n \div 2) + (IF StartsWithListMarker(text) THEN 1
                            ELSE IF n >= 1 THEN 3
                            ELSE IF HasContent(text) THEN 1
                            ELSE 0)

\* C14 amended: the indentation is floor(n / 2) quarters plus 0.25 for a line
\* that starts with a list marker followed by whitespace, else 0.75 for a
\* line with floor(n / 2) >= 1 (two or more leading whitespace characters),
\* else 0.25 for a line with non-whitespace content, else 0.
C14_TwoLeadingWhitespace ==
  pc = "indented" =>
     LET n == LeadingSpaces(text)
     IN ret = (n \div 2) + (IF StartsWithSpacedListMarker(text) THEN 1
                            ELSE IF n >= 2 THEN 3
                            ELSE IF HasContent(text) THEN 1
                            ELSE 0)

\* a line with one leading space and content, given the bonus of an
\* unindented line
C14_Witness ==
  /\ pc = "indented"
  /\ LeadingSpaces(text) = 1
  /\ HasContent(text)
  /\ ~StartsWithSpacedListMarker(text)
  /\ ret = 1

----------------------------------------------------------------------------
(* Specification of splitWordIfNeeded alone *)

MaxWordLen == 5

WordAlphabet == {"a", "-"}
WordTexts == SeqsUpTo(WordAlphabet, MaxWordLen)
WordWidths == {15, 25, 40, 65}
WordStyles == {PlainStyle, [PlainStyle EXCEPT !.bold = TRUE]}

InitWord ==
  /\ pc = "splitWordIfNeeded"
  /\ text \in WordTexts
  /\ opts \in [maxWidth : WordWidths, style : WordStyles]
  /\ segments = <<>>
  /\ lines = <<>>
  /\ lineIndex = 0
  /\ textLines = <<>>
  /\ currentY = 0
  /\ font = NoFont
  /\ pages = 0
  /\ draws = <<>>
  /\ emitted = <<>>
  /\ ret = 0
  /\ chapters = <<>>

SplitWord ==
  /\ pc = "splitWordIfNeeded"
  /\ segments' = splitWordIfNeeded(text, opts.style, font.size, opts.maxWidth)
  /\ font' = applyStyle(opts.style, font.size)
  /\ pc' = "wordSplit"
  /\ UNCHANGED <<chapters, text, opts, lines, lineIndex, textLines, currentY, pages, draws,
                 emitted, ret>>

NextWord == SplitWord

SpecWord == InitWord /\ [][NextWord]_vars

----------------------------------------------------------------------------
(* Claims about splitWordIfNeeded *)

\* the k-th fragment without the hyphen added to it: a fragment that is not
\* the last and has more than one character has one
FragmentBody(k) ==
  LET t == segments[k].text
  IN IF k < Len(segments) /\ Len(t) >= 2 THEN Take(t, Len(t) - 1) ELSE t

OverThreshold(str) == getTextWidth(str, font) * 100 > opts.maxWidth * 95

\* C17: a word that fits maxWidth is returned as one fragment; otherwise the
\* word is cut whenever the candidate fragment gets wider than 95% of
\* maxWidth: a fragment of two or more characters gets a trailing hyphen, a
\* fragment of one character none, a character wider than the threshold
\* stands alone, the last fragment gets no hyphen, and the fragments without
\* the added hyphens concatenate to the word.
C17_SplitWord ==
  pc = "wordSplit" =>
     LET n == Len(segments)
     IN IF getTextWidth(text, font) <= opts.maxWidth
        THEN segments = << [text |-> text, style |-> opts.style] >>
        ELSE /\ n >= 1
             /\ \A k \in 1..n : segments[k].style = opts.style
             /\ \A k \in 1..(n - 1) :
                   LET t == segments[k].text
                   IN \/ Len(t) = 1
                      \/ Len(t) >= 3 /\ Last(t) = "-"
             /\ Flatten([k \in 1..n |-> FragmentBody(k)]) = text
             /\ \A k \in 1..n :
                   /\ FragmentBody(k) # <<>>
                   /\ OverThreshold(FragmentBody(k)) => Len(FragmentBody(k)) = 1
             /\ \A k \in 1..(n - 1) :
                   OverThreshold(Append(FragmentBody(k), FragmentBody(k + 1)[1]))

\* a word cut into a hyphenated fragment, a fragment of one character and a rest
C17_Witness ==
  /\ pc = "wordSplit"
  /\ Len(segments) >= 3
  /\ \E k \in 1..(Len(segments) - 1) : Len(segments[k].text) >= 3 /\ Last(segments[k].text) = "-"
  /\ \E k \in 1..(Len(segments) - 1) : Len(segments[k].text) = 1

----------------------------------------------------------------------------
(* Specification of the chapter list of the store                          *)
(* (src/project/src/store/useEbookStore.ts).  A chapter is                 *)
(* [id, type, contentPages, pageNumber, subChapters]: contentPages is what *)
(* its content and images come to in calculatePageNumbers, pageNumber 0 a  *)
(* chapter that has none yet; a sub-chapter is [id, pageNumber].           *)

MaxChapters == 2
MaxSubChapters == 1

ChapterTypes == {"frontmatter", "toc", "chapter", "backmatter"}
\* contentPages + totalImagePages of calculatePageNumbers
ContentPageCounts == {0, 2}

InitStore ==
  /\ pc = "store"
  /\ text = <<>>
  /\ opts \in [coverImage : BOOLEAN]
  /\ segments = <<>>
  /\ lines = <<>>
  /\ lineIndex = 0
  /\ textLines = <<>>
  /\ currentY = 0
  /\ font = NoFont
  /\ pages = 0
  /\ draws = <<>>
  /\ emitted = <<>>
  /\ ret = 0
  /\ chapters = <<>>

\* let chapterNumber = 1; ...map(ch => ch.type === 'chapter' ?
\* { ...ch, pageNumber: chapterNumber++ } : ch)
NumberChapters(chs) ==
  [k \in 1..Len(chs) |->
     IF chs[k].type = "chapter"
     THEN [chs[k] EXCEPT !.pageNumber =
              Cardinality({i \in 1..k : chs[i].type = "chapter"})]
     ELSE chs[k]]

RECURSIVE SkipWhile(_, _, _)
\* while (insertIndex < length && type of [insertIndex] is one of types) insertIndex++
SkipWhile(chs, insertIndex, types) ==
  IF insertIndex < Len(chs) /\ chs[insertIndex + 1].type \in types
  THEN SkipWhile(chs, insertIndex + 1, types)
  ELSE insertIndex

\* the insertIndex addChapter computes for a chapter of the given type
InsertIndex(chs, type) ==
  IF type \in {"frontmatter", "toc"} THEN SkipWhile(chs, 0, {"frontmatter", "toc"})
  ELSE IF type = "chapter"
  THEN SkipWhile(chs, SkipWhile(chs, 0, {"frontmatter", "toc"}), {"chapter"})
  ELSE Len(chs)

\* crypto.randomUUID(): an id no element of the list has
FreshId(items) ==
  CHOOSE i \in 1..(Len(items) + 1) :
     /\ \A k \in 1..Len(items) : items[k].id # i
     /\ \A j \in 1..(i - 1) : \E k \in 1..Len(items) : items[k].id = j

\* the chapters after addChapter(chapter)
ChaptersAfterAdd(chs, type, contentPages) ==
  LET newChapter  == [id |-> FreshId(chs), type |-> type, contentPages |-> contentPages,
                      pageNumber |-> 0, subChapters |-> <<>>]
      insertIndex == InsertIndex(chs, type)
  IN NumberChapters(SubSeq(chs, 1, insertIndex) \o <<newChapter>>
                    \o SubSeq(chs, insertIndex + 1, Len(chs)))

addChapter ==
  /\ pc = "store"
  /\ Len(chapters) < MaxChapters
  /\ \E type \in ChapterTypes, contentPages \in ContentPageCounts :
        chapters' = ChaptersAfterAdd(chapters, type, contentPages)
  /\ UNCHANGED <<pc, text, opts, segments, lines, lineIndex, textLines, currentY, font,
                 pages, draws, emitted, ret>>

\* updateChapter(id, chapter), chapter giving a type and a content
updateChapter ==
  /\ pc = "store"
  /\ \E n \in 1..Len(chapters), type \in ChapterTypes, contentPages \in ContentPageCounts :
        chapters' = NumberChapters(
           [chapters EXCEPT ![n] = [@ EXCEPT !.type = type, !.contentPages = contentPages]])
  /\ UNCHANGED <<pc, text, opts, segments, lines, lineIndex, textLines, currentY, font,
                 pages, draws, emitted, ret>>

removeChapter ==
  /\ pc = "store"
  /\ \E n \in 1..Len(chapters) :
        chapters' = NumberChapters(SubSeq(chapters, 1, n - 1)
                                   \o SubSeq(chapters, n + 1, Len(chapters)))
  /\ UNCHANGED <<pc, text, opts, segments, lines, lineIndex, textLines, currentY, font,
                 pages, draws, emitted, ret>>

\* Math.max(1, contentPages + totalImagePages)
TotalPages(ch) == IF ch.contentPages > 1 THEN ch.contentPages ELSE 1

RECURSIVE PageNumberScan(_, _, _, _)
\* chapters.map of calculatePageNumbers from index k on: a chapter gets the
\* count of its numbering, which then moves past the chapter's own page, its
\* content and one page for every sub-chapter (a sub-chapter's content is '')
PageNumberScan(chs, k, romanPageCount, arabicPageCount) ==
  IF k > Len(chs) THEN <<>>
  ELSE LET chapter      == chs[k]
           isPreContent == chapter.type \in {"frontmatter", "toc"}
           pageCount    == IF isPreContent THEN romanPageCount ELSE arabicPageCount
           subStart     == pageCount + 1 + TotalPages(chapter)
           subChapters  == [j \in 1..Len(chapter.subChapters) |->
                              [chapter.subChapters[j] EXCEPT !.pageNumber = subStart + j - 1]]
           after        == subStart + Len(chapter.subChapters)
       IN <<[chapter EXCEPT !.pageNumber = pageCount, !.subChapters = subChapters]>>
          \o PageNumberScan(chs, k + 1,
                            IF isPreContent THEN after ELSE romanPageCount,
                            IF isPreContent THEN arabicPageCount ELSE after)

\* calculatePageNumbers()
calculatePageNumbers(chs, settings) ==
  PageNumberScan(chs, 1, 1, IF settings.coverImage THEN 3 ELSE 2)

\* the elements of chs of the given type, in order
OfType(chs, type) == SelectSeq(chs, LAMBDA ch : ch.type = type)

\* reorderChapters(chapters), the argument being the chapters in a new order
reorderChapters ==
  /\ pc = "store"
  /\ Len(chapters) >= 1
  /\ \E order \in {f \in [1..Len(chapters) -> 1..Len(chapters)] :
                     \A i, j \in 1..Len(chapters) : f[i] = f[j] => i = j} :
        LET given == [k \in 1..Len(chapters) |-> chapters[order[k]]]
        IN chapters' = calculatePageNumbers(
                          OfType(given, "frontmatter") \o OfType(given, "toc")
                            \o NumberChapters(OfType(given, "chapter"))
                            \o OfType(given, "backmatter"),
                          opts)
  /\ UNCHANGED <<pc, text, opts, segments, lines, lineIndex, textLines, currentY, font,
                 pages, draws, emitted, ret>>

addSubChapter ==
  /\ pc = "store"
  /\ \E n \in 1..Len(chapters) :
        /\ Len(chapters[n].subChapters) < MaxSubChapters
        /\ chapters' = calculatePageNumbers(
              [chapters EXCEPT ![n].subChapters =
                  Append(@, [id |-> FreshId(@), pageNumber |-> 0])],
              opts)
  /\ UNCHANGED <<pc, text, opts, segments, lines, lineIndex, textLines, currentY, font,
                 pages, draws, emitted, ret>>

removeSubChapter ==
  /\ pc = "store"
  /\ \E n \in 1..Len(chapters) :
        \E m \in 1..Len(chapters[n].subChapters) :
           chapters' = calculatePageNumbers(
              [chapters EXCEPT ![n].subChapters =
                  SubSeq(@, 1, m - 1) \o SubSeq(@, m + 1, Len(@))],
              opts)
  /\ UNCHANGED <<pc, text, opts, segments, lines, lineIndex, textLines, currentY, font,
                 pages, draws, emitted, ret>>

NextStore ==
  \/ addChapter
  \/ updateChapter
  \/ removeChapter
  \/ reorderChapters
  \/ addSubChapter
  \/ removeSubChapter

SpecStore == InitStore /\ [][NextStore]_vars

\* the number generatePDF prints after "Bab" in the title of the n-th chapter
BabNumber(n) == chapters[n].pageNumber

----------------------------------------------------------------------------
(* Claims about the store *)

\* C30: after any sequence of addChapter, updateChapter, removeChapter,
\* reorderChapters, addSubChapter and removeSubChapter the k-th entry of type
\* 'chapter' of the chapter list has pageNumber k, the number generatePDF
\* prints as "Bab k" in the title of that chapter.
C30_ChapterNumbers ==
  \A n \in 1..Len(chapters) :
     chapters[n].type = "chapter" =>
        BabNumber(n) = Cardinality({i \in 1..n : chapters[i].type = "chapter"})

====
